---------------------------- MODULE Spec2Model ----------------------------
(***************************************************************************)
(* mic-analyzer: the capture / analysis-loop / recording engine.           *)
(*                                                                         *)
(* The repository holds two pages built on two engines:                    *)
(*   - app.js   driving analyzer.js (window.MicAnalyzer): variable  app    *)
(*   - main.js  driving audio.js   (ES modules):           variable  main  *)
(* Each variable is one page's world: the module-scope variables of its    *)
(* scripts (fields named as in the source) together with the browser       *)
(* objects the scripts hold handles to (streams, audio contexts, recorders,*)
(* pending animation frames and timers, blob URLs).  JavaScript runs each  *)
(* handler to completion, so one action is one handler or one event; an    *)
(* await splits a function into the part before and the continuation.      *)
(* A handle value 0 is null / undefined.  A browser tab shows one of the    *)
(* two pages: variable page.                                               *)
(***************************************************************************)
EXTENDS Integers, Sequences, FiniteSets, TLC

VARIABLES page, app, main

vars == <<page, app, main>>

\* ------------------------------------------------------------------ bounds
\* streams acquired and not yet stopped (and contexts not yet closed),
\* counting the getUserMedia requests still pending, per page
MaxStreams == 2
\* recordings not yet terminated plus artifacts not yet revoked, per page
MaxRecordings == 2
\* non-empty chunks held in the chunk buffer
MaxChunks == 1
\* animation frames pending at once
MaxFrames == 2
\* samples of a window that differ from the mid value, when not all do
MaxBurst == 1

\* ----------------------------------------------------------------- helpers
Range(s) == {s[k] : k \in DOMAIN s}

Rank(x, S) == Cardinality({y \in S : y <= x})

\* The handle the browser returns for a new frame or timer: one that is
\* neither pending nor still held.
Fresh(used) == CHOOSE i \in 1..(Cardinality(used) + 1) : i \notin used

\* ---- Objects that no script variable and no pending task can reach are
\* dropped after every handler, and the handles of the others renumbered in
\* order: keep is the set of indices (or handles) kept.
Nth(keep, k) == CHOOSE i \in keep : Rank(i, keep) = k

Compact(seq, keep) == [k \in 1..Cardinality(keep) |-> seq[Nth(keep, k)]]

\* a handle after renumbering; a handle that is held but no longer pending
\* (a frame that ran, a timer that fired) stays distinct from the pending ones
Handle(h, keep) ==
    IF h = 0 THEN 0
    ELSE IF h \in keep THEN Rank(h, keep)
    ELSE Cardinality(keep) + 1

\* ---------------------------------------------------- browser object model
\* MediaStreamTrack.readyState of a stream's tracks
NewStream == "live"
\* AudioContext: "running"; "closing" once close() was called (the control
\* thread is flagged closed, the state attribute still reads running and the
\* promise is pending); "closed" when the promise resolves.
NewContext == "running"

\* MediaRecorder: state, the stream it records, mimeType, the recordings
\* whose stop task (final dataavailable, then stop) is queued, the recording
\* in progress, and whether analyzer.js's ad-hoc callback fields are set.
NewRecorder(stream, mime) ==
    [state |-> "inactive", stream |-> stream, mimeType |-> mime,
     stopQueue |-> <<>>, rec |-> 0, callbacks |-> FALSE]

\* MediaRecorder.start(): a new recording, numbered n
RecorderStart(r, n) == [r EXCEPT !.state = "recording", !.rec = n]

\* MediaRecorder.stop() and every other way the recorder is inactivated:
\* the state is inactive at once, the stop task is queued
RecorderInactivate(r) ==
    [r EXCEPT !.state = "inactive", !.stopQueue = Append(@, r.rec)]

\* a recorder that can still deliver an event
RecorderAlive(r) == r.state = "recording" \/ r.stopQueue # <<>>

\* the recordings in progress or with their stop task queued
Recordings(recorders) ==
    UNION {Range(recorders[i].stopQueue) \cup
             (IF recorders[i].state = "recording" THEN {recorders[i].rec}
                                                  ELSE {}) :
           i \in DOMAIN recorders}

\* recordings are numbered in order of their start; a chunk of a recording
\* that has terminated carries 0
Retag(n, alive) == IF n \in alive THEN Rank(n, alive) ELSE 0

RetagRecorder(r, alive) ==
    [r EXCEPT !.rec = IF r.state = "recording" THEN Retag(r.rec, alive) ELSE 0,
              !.stopQueue = [k \in DOMAIN r.stopQueue |->
                                Retag(r.stopQueue[k], alive)]]

Retagged(recorders, alive) ==
    [i \in DOMAIN recorders |-> RetagRecorder(recorders[i], alive)]

\* the handle of a recorder's stream whose tracks have ended
Ended == -1

\* the stream handles of the recorders after renumbering: an ended stream
\* has no identity left
Restreamed(recorders, streams, keep) ==
    [i \in DOMAIN recorders |->
       [recorders[i] EXCEPT !.stream =
          IF @ \in DOMAIN streams /\ streams[@] = "live"
          THEN Handle(@, keep)
          ELSE Ended]]

LiveStreams(streams) == {i \in DOMAIN streams : streams[i] = "live"}

OpenContexts(contexts) == {i \in DOMAIN contexts : contexts[i] # "closed"}

\* the number MediaRecorder.start() gives the next recording
NextRecording(recorders) == Cardinality(Recordings(recorders)) + 1

\* ================================================================ app.js /
\* analyzer.js
AppInit ==
    [ \* analyzer.js module scope
      audioContext |-> 0, analyserNode |-> 0, mediaStreamSource |-> 0,
      microphoneStream |-> 0, mediaRecorder |-> 0, recordedChunks |-> <<>>,
      recordingTimerId |-> 0, animationFrameId |-> 0,
      \* app.js
      appState |-> "idle", currentBlobUrl |-> 0, lastStatus |-> "statusIdle",
      lastMetrics |-> [null |-> TRUE],
      \* ui.js setButtonStates: the Record control is enabled
      recordEnabled |-> FALSE,
      \* the closure of the running loop (startAnalysis)
      lastNoiseLevel |-> 0,
      \* browser
      streams |-> <<>>, contexts |-> <<>>, recorders |-> <<>>,
      frames |-> {}, timers |-> {}, urls |-> <<>>,
      \* handleStartClick is awaiting MicAnalyzer.initMic()
      startPending |-> FALSE,
      \* initMic() calls of other scripts awaiting getUserMedia
      initMicPending |-> 0,
      \* the subscriber the running loop was started with
      subscriber |-> "none",
      \* history of the loop since it was last started: "running", "stopped"
      \* once stopAnalysis() has returned, "late" once a subscriber callback
      \* ran after that
      sinceStop |-> "running" ]

\* streams whose tracks ended, closed contexts, revoked URLs and recorders
\* that are neither held nor able to deliver an event are gone, and so is
\* the closure of a loop no frame of which is pending
AppCollect(w) ==
    LET ks == {i \in DOMAIN w.streams :
                 \/ w.streams[i] = "live"
                 \/ i = w.microphoneStream}
        kc == {i \in DOMAIN w.contexts :
                 w.contexts[i] # "closed" \/ i = w.audioContext}
        kr == {i \in DOMAIN w.recorders :
                 RecorderAlive(w.recorders[i]) \/ i = w.mediaRecorder}
        ku == {i \in DOMAIN w.urls :
                 ~w.urls[i].revoked \/ i = w.currentBlobUrl}
        alive == Recordings(w.recorders)
    IN  [w EXCEPT !.streams = Compact(w.streams, ks),
                  !.microphoneStream = Handle(@, ks),
                  !.contexts = Compact(w.contexts, kc),
                  !.audioContext = Handle(@, kc),
                  !.recorders =
                     Restreamed(Retagged(Compact(w.recorders, kr), alive),
                                w.streams, ks),
                  !.mediaRecorder = Handle(@, kr),
                  !.recordedChunks = [k \in DOMAIN @ |-> Retag(@[k], alive)],
                  !.urls = Compact(w.urls, ku),
                  !.currentBlobUrl = Handle(@, ku),
                  !.frames = 1..Cardinality(w.frames),
                  !.animationFrameId = Handle(@, w.frames),
                  !.timers = 1..Cardinality(w.timers),
                  !.recordingTimerId = Handle(@, w.timers),
                  !.lastNoiseLevel = IF w.frames = {} THEN 0 ELSE @]

\* window.MicAnalyzer exposes six functions and no data: app.js reads
\* MicAnalyzer.analyserNode and MicAnalyzer.mediaRecorder as undefined.
MicAnalyzerExports ==
    {"initMic", "startAnalysis", "stopAnalysis", "startRecording",
     "stopRecording", "cleanup"}

MicAnalyzerField(w, name) == name \in MicAnalyzerExports

clearTimeout(w, id) == [w EXCEPT !.timers = @ \ {id}]

cancelAnimationFrame(w, id) == [w EXCEPT !.frames = @ \ {id}]

\* requestAnimationFrame(processAudioLoop); animationFrameId = the handle
requestLoopFrame(w) ==
    LET f == Fresh(w.frames \cup {w.animationFrameId})
    IN  [w EXCEPT !.frames = @ \cup {f}, !.animationFrameId = f]

\* ---- app.js callbacks handed to the engine
handleRecordingStop(w, blobUrl) ==
    LET w1 == [w EXCEPT !.currentBlobUrl = blobUrl]
    IN  IF MicAnalyzerField(w1, "analyserNode")
        THEN [w1 EXCEPT !.appState = "testing", !.lastStatus = "statusTesting",
                        !.recordEnabled = TRUE]
        ELSE [w1 EXCEPT !.appState = "stopped", !.lastStatus = "statusStopped",
                        !.recordEnabled = FALSE]

handleMetricsUpdate(w, metrics) == [w EXCEPT !.lastMetrics = metrics]

handleRecordingError(w, errorMsg) ==
    LET key == IF errorMsg = "NoDataRecorded" THEN "errorRecordingNoData"
                                               ELSE "errorRecordingGeneric"
        w1 == [w EXCEPT !.lastStatus = key]
    IN  IF MicAnalyzerField(w1, "analyserNode")
        THEN [w1 EXCEPT !.appState = "testing", !.recordEnabled = TRUE]
        ELSE [w1 EXCEPT !.appState = "stopped", !.recordEnabled = FALSE]

\* ---- analyzer.js
\* a stopAnalysis() that also empties the recording buffer
stopAnalysisClearingChunks(w) ==
    IF w.animationFrameId # 0
    THEN [cancelAnimationFrame(w, w.animationFrameId)
            EXCEPT !.animationFrameId = 0, !.sinceStop = "stopped",
                   !.recordedChunks = <<>>]
    ELSE [w EXCEPT !.sinceStop = "stopped", !.recordedChunks = <<>>]

stopAnalysis(w) ==
    IF w.animationFrameId # 0
    THEN [cancelAnimationFrame(w, w.animationFrameId)
            EXCEPT !.animationFrameId = 0, !.sinceStop = "stopped"]
    ELSE [w EXCEPT !.sinceStop = "stopped"]

\* ---- analyzer.js: the metrics of one tick
\* analyserNode.fftSize, the length of timeDataArray
AnalyzerFftSize == 2048

silenceThreshold == -50

FloorDb == -100

\* What getByteTimeDomainData writes into timeDataArray, as runs of equal
\* bytes: one byte throughout, or a burst of one byte and the mid value 128
\* for the rest of the window.
SampleBytes == {0, 1, 2, 128, 129, 130, 253, 254, 255}

Uniform(b) == <<[byte |-> b, count |-> AnalyzerFftSize]>>

Burst(b, k) ==
    <<[byte |-> b, count |-> k], [byte |-> 128, count |-> AnalyzerFftSize - k]>>

Windows ==
    {Uniform(b) : b \in SampleBytes}
      \cup {Burst(b, k) : b \in SampleBytes \ {128}, k \in 1..MaxBurst}

\* the window of a microphone that delivers digital silence
QuietWindows == {Uniform(128)}

Max(a, b) == IF a >= b THEN a ELSE b

Abs(a) == IF a >= 0 THEN a ELSE 0 - a

\* Amplitudes are held in units of 1/128, and a level in dBFS is held as the
\* power it is the logarithm of, in units of 1/FullScale: 0 stands for
\* -Infinity and FullScale for 0 dBFS.  The logarithm is increasing, so the
\* order of levels is the order of these powers.
FullScale == AnalyzerFftSize * 128 * 128

\* a byte read as if 0 were the resting value
amplitudeUnsigned(valueByte) == valueByte

\* valueByte / 128.0 - 1.0
amplitude(valueByte) == valueByte - 128

\* a clipping test that knows the two extreme bytes only
clipsAtExtremes(valueByte) == valueByte = 255 \/ valueByte = 0

clips(valueByte) == valueByte >= 254 \/ valueByte <= 1

\* the for loop over timeDataArray, a run at a time
RECURSIVE accumulate(_, _)
accumulate(runs, acc) ==
    IF runs = <<>>
    THEN acc
    ELSE LET run == Head(runs)
             valueFloat == amplitude(run.byte)
         IN  accumulate(Tail(runs),
               [peakLinear |-> Max(acc.peakLinear, Abs(valueFloat)),
                sumSquares |-> acc.sumSquares
                                 + run.count * valueFloat * valueFloat,
                sumValues  |-> acc.sumValues + run.count * valueFloat,
                clipping   |-> acc.clipping \/ clips(run.byte)])

RECURSIVE Pow10(_)
Pow10(n) == IF n = 0 THEN 1 ELSE 10 * Pow10(n - 1)

\* level < db, for db a multiple of 10 that is not positive
belowDb(level, db) == level <= (FullScale - 1) \div Pow10((0 - db) \div 10)

\* a value shown without the floor
displayedRaw(level) == [power |-> level]

\* isFinite(v) ? v : -100.0
displayed(level) ==
    IF level > 0 THEN [power |-> level] ELSE [dB |-> FloorDb]

\* an estimate that follows the latest silent window
latestNoiseLevel(last, rmsDBFS, isSilent) ==
    IF isSilent THEN rmsDBFS ELSE last

\* an estimate that follows the loudest window, silent or not
loudestLevel(last, rmsDBFS, isSilent) == Max(last, rmsDBFS)

\* if (isSilent) lastNoiseLevel = Math.max(lastNoiseLevel, rmsDBFS)
nextNoiseLevel(last, rmsDBFS, isSilent) ==
    IF isSilent THEN Max(last, rmsDBFS) ELSE last

\* the metrics object of one tick on the window data, and the closure's
\* lastNoiseLevel after it
measure(data, lastNoiseLevel) ==
    LET sums == accumulate(data, [peakLinear |-> 0, sumSquares |-> 0,
                                  sumValues |-> 0, clipping |-> FALSE])
        peakDBFS == AnalyzerFftSize * sums.peakLinear * sums.peakLinear
        rmsDBFS  == sums.sumSquares
        isSilent == belowDb(rmsDBFS, silenceThreshold)
        noise    == nextNoiseLevel(lastNoiseLevel, rmsDBFS, isSilent)
    IN  [lastNoiseLevel |-> noise,
         metrics |->
           [peakVolume |-> displayed(peakDBFS),
            rmsVolume  |-> displayed(rmsDBFS),
            clipping   |-> sums.clipping,
            isSilent   |-> isSilent,
            noiseLevel |-> displayed(noise),
            dcOffset   |-> [sum |-> sums.sumValues,
                            over |-> 128 * AnalyzerFftSize]]]

\* a format that shows "---" for values that are not finite only
formatNonFinite(value) ==
    IF "power" \in DOMAIN value /\ value.power = 0 THEN "---" ELSE "number"

\* ui.js formatDBFS: "---" for a value that is not finite or is <= -100, the
\* number otherwise.  A positive power is at least 1/FullScale, which is
\* above -76 dBFS.
formatDBFS(value) ==
    IF \/ "dB" \in DOMAIN value /\ value.dB <= FloorDb
       \/ "power" \in DOMAIN value /\ value.power = 0
    THEN "---"
    ELSE "number"

\* app.js generateActionableTips compares emitted values with thresholds in
\* dBFS.  The power of db dBFS is FullScale * 10^(db/10), never an integer
\* for these thresholds: its integer part tells on which side a power lies.
PowerAtDb(db) ==
    CASE db = -1  -> 26653232
      [] db = -6  -> 8428492
      [] db = -25 -> 106108
      [] db = -45 -> 1061
      [] db = -55 -> 106

\* value > db and value < db, for an emitted value
dbAbove(value, db) ==
    IF "dB" \in DOMAIN value THEN value.dB > db
    ELSE value.power > PowerAtDb(db)

dbBelow(value, db) ==
    IF "dB" \in DOMAIN value THEN value.dB < db
    ELSE value.power <= PowerAtDb(db)

\* the textKeys of the tips generateActionableTips returns
generateActionableTips(metrics) ==
    (IF metrics.clipping THEN {"tips.clippingDetected"}
     ELSE IF dbAbove(metrics.rmsVolume, -6) /\ dbBelow(metrics.rmsVolume, -1)
     THEN {"tips.volumeHigh"}
     ELSE {})
    \cup (IF dbBelow(metrics.rmsVolume, -25) /\ dbAbove(metrics.rmsVolume, -55)
          THEN {"tips.volumeLow"} ELSE {})
    \cup (IF dbAbove(metrics.noiseLevel, -45)
          THEN {"tips.noiseHigh"} ELSE {})

startAnalysis(w, sub) ==
    IF \/ w.analyserNode = 0
       \/ w.audioContext = 0
       \/ w.contexts[w.audioContext] = "closed"
    THEN w
    ELSE IF w.animationFrameId # 0
    THEN w
    ELSE [requestLoopFrame(w) EXCEPT !.subscriber = sub,
                                     !.sinceStop = "running",
                                     !.lastNoiseLevel = 0]

\* One tick on the window data.  reenter: the subscriber calls
\* stopAnalysis() from inside its callback (only a subscriber other than
\* app.js's own does).
processAudioLoop(w, data, reenter) ==
    IF w.analyserNode = 0
    THEN stopAnalysis(w)
    ELSE LET tick == measure(data, w.lastNoiseLevel)
             w0 == [w EXCEPT !.lastNoiseLevel = tick.lastNoiseLevel]
             w1 == IF w0.sinceStop = "running" THEN w0
                   ELSE [w0 EXCEPT !.sinceStop = "late"]
             w2 == IF w1.subscriber = "app"
                   THEN handleMetricsUpdate(w1, tick.metrics)
                   ELSE w1
             w3 == IF reenter THEN stopAnalysis(w2) ELSE w2
         IN  requestLoopFrame(w3)

\* a stopRecording without the guard of line 255 on the recorder's state
stopRecordingUnguarded(w) ==
    IF w.mediaRecorder = 0
    THEN clearTimeout(w, w.recordingTimerId)
    ELSE [w EXCEPT !.recorders[w.mediaRecorder] =
                     [RecorderInactivate(@) EXCEPT !.callbacks = TRUE]]

stopRecording(w) ==
    IF w.mediaRecorder = 0 \/ w.recorders[w.mediaRecorder].state = "inactive"
    THEN clearTimeout(w, w.recordingTimerId)
    ELSE [w EXCEPT !.recorders[w.mediaRecorder] =
                     [RecorderInactivate(@) EXCEPT !.callbacks = TRUE]]

startRecording(w) ==
    IF w.mediaRecorder = 0
    THEN handleRecordingError(w, "RecordingNotSupported")
    ELSE IF w.recorders[w.mediaRecorder].state = "recording"
    THEN w
    ELSE LET w1 == [w EXCEPT !.recordedChunks = <<>>,
                             !.recorders[w.mediaRecorder] =
                                RecorderStart(@, NextRecording(w.recorders))]
             w2 == clearTimeout(w1, w1.recordingTimerId)
             t  == Fresh(w2.timers)
         IN  [w2 EXCEPT !.timers = @ \cup {t}, !.recordingTimerId = t]

\* recorder.ondataavailable
ondataavailable(w, chunk, size) ==
    IF size > 0
    THEN [w EXCEPT !.recordedChunks = Append(@, chunk)]
    ELSE w

\* recorder.onstop of recorder r
onstop(w, r) ==
    LET w1 == clearTimeout(w, w.recordingTimerId)
        cb == w1.recorders[r].callbacks
    IN  IF Len(w1.recordedChunks) = 0
        THEN LET w2 == IF cb THEN handleRecordingError(w1, "NoDataRecorded")
                             ELSE w1
             IN  [w2 EXCEPT !.recorders[r].callbacks = FALSE]
        ELSE LET w2 == [w1 EXCEPT !.urls = Append(@, [revoked |-> FALSE])]
                 w3 == IF cb THEN handleRecordingStop(w2, Len(w2.urls)) ELSE w2
             IN  [w3 EXCEPT !.recordedChunks = <<>>,
                            !.recorders[r].callbacks = FALSE]

\* recorder.onerror of recorder r
onerror(w, r) ==
    LET w1 == clearTimeout(w, w.recordingTimerId)
        w2 == IF w1.recorders[r].callbacks
              THEN handleRecordingError(w1, "RecorderError")
              ELSE w1
    IN  [w2 EXCEPT !.recorders[r].callbacks = FALSE]

\* cleanup() up to its await of audioContext.close(); close() of a context
\* that is already closing rejects and the catch leaves audioContext as it is
cleanup(w) ==
    LET w1 == clearTimeout(stopAnalysis(w), w.recordingTimerId)
        w2 == IF w1.mediaRecorder # 0
                 /\ w1.recorders[w1.mediaRecorder].state # "inactive"
              THEN [w1 EXCEPT !.recorders[w1.mediaRecorder] =
                                 RecorderInactivate(@)]
              ELSE w1
        w3 == [w2 EXCEPT !.mediaRecorder = 0]
        w4 == IF w3.microphoneStream # 0
              THEN [w3 EXCEPT !.streams[w3.microphoneStream] = "ended",
                              !.microphoneStream = 0]
              ELSE w3
        w5 == [w4 EXCEPT !.mediaStreamSource = 0, !.analyserNode = 0]
    IN  IF w5.audioContext # 0 /\ w5.contexts[w5.audioContext] = "running"
        THEN [w5 EXCEPT !.contexts[w5.audioContext] = "closing"]
        ELSE w5

\* the continuation of cleanup() once close() of context c has resolved
cleanupResumed(w, c) ==
    [w EXCEPT !.contexts[c] = "closed", !.audioContext = 0]

\* ---- initMic(), from the resolution of getUserMedia on
\* err -> the message of the Error initMic throws, as the sequence of the
\* strings it is concatenated from
initMicErrorMessage(err) ==
    IF err.name \in {"NotAllowedError", "PermissionDeniedError"}
    THEN <<"PermissionDenied">>
    ELSE IF err.name \in {"NotFoundError", "DevicesNotFoundError"}
    THEN <<"NotFound">>
    ELSE <<"InitError: ", err.message>>

\* handleStartClick's catch: the message -> the status key
startErrorKey(message) ==
    IF message = <<"PermissionDenied">> THEN "errorPermissionDenied"
    ELSE IF message = <<"NotFound">> THEN "errorMicNotFound"
    ELSE "errorInitGeneric"

\* handleStartClick's catch block
startFailed(w, message) ==
    [w EXCEPT !.lastStatus = startErrorKey(message), !.appState = "error",
              !.recordEnabled = FALSE]

\* The try block of initMic after the stream was granted.  failAt names the
\* constructor that throws, "none" when none does; host tells whether
\* window.MediaRecorder exists and what isTypeSupported('audio/webm') answers.
\* The result is <<world, thrown>>.
initMicGranted(w, failAt, host) ==
    LET w1 == [w EXCEPT !.streams = Append(@, NewStream),
                        !.microphoneStream = Len(w.streams) + 1]
        w2 == [w1 EXCEPT !.contexts = Append(@, NewContext),
                         !.audioContext = Len(w1.contexts) + 1]
        w3 == [w2 EXCEPT !.analyserNode = 1]
        w4 == [w3 EXCEPT !.mediaStreamSource = 1]
        w5 == IF host = "webmSupported"
              THEN [w4 EXCEPT !.recorders =
                                Append(@, NewRecorder(w4.microphoneStream,
                                                     "audio/webm")),
                              !.mediaRecorder = Len(w4.recorders) + 1]
              ELSE [w4 EXCEPT !.mediaRecorder = 0]
    IN  CASE failAt = "AudioContext" -> <<w1, TRUE>>
          [] failAt = "createMediaStreamSource" -> <<w3, TRUE>>
          [] OTHER -> <<w5, FALSE>>

\* handleStartClick after await MicAnalyzer.initMic() returned
startSucceeded(w) ==
    [startAnalysis(w, "app") EXCEPT
       !.appState = "testing",
       !.lastStatus = "statusTesting",
       !.recordEnabled = MicAnalyzerField(w, "mediaRecorder")]

InitFailPoints == {"none", "AudioContext", "createMediaStreamSource"}

\* the hosts initMic tells apart at line 67
RecorderHosts == {"noMediaRecorder", "webmUnsupported", "webmSupported"}

GetUserMediaErrors ==
    {"NotAllowedError", "PermissionDeniedError", "NotFoundError",
     "DevicesNotFoundError", "NotReadableError", "TrackStartError",
     "OverconstrainedError"}

\* err.message, the text the host words the failure with
ErrorTexts == {"Requested device not found", "Could not start audio source"}

\* what a constructor of initMic's try block throws
ConstructorErrors ==
    {[name |-> "NotSupportedError", message |-> text] : text \in ErrorTexts}


handleStopClick(w) ==
    LET w1 == stopAnalysis(w)
        w2 == IF w1.appState = "recording" THEN stopRecording(w1) ELSE w1
    IN  [w2 EXCEPT !.appState = "stopped", !.lastStatus = "statusStopped",
                   !.recordEnabled = FALSE]

handleRecordClick(w) ==
    LET w1 == [w EXCEPT !.appState = "recording",
                        !.lastStatus = "statusRecording",
                        !.recordEnabled = FALSE]
        w2 == IF w1.currentBlobUrl # 0
              THEN [w1 EXCEPT !.urls[w1.currentBlobUrl].revoked = TRUE,
                              !.currentBlobUrl = 0]
              ELSE w1
    IN  startRecording(w2)

\* room for one more getUserMedia request / one more recording
AppMayAcquire(w) ==
    LET pending == w.initMicPending + (IF w.startPending THEN 1 ELSE 0)
    IN  /\ Cardinality(LiveStreams(w.streams)) + pending < MaxStreams
        /\ Cardinality(OpenContexts(w.contexts)) + pending < MaxStreams

AppMayRecord(w) ==
    Cardinality(Recordings(w.recorders)) + Len(w.urls) < MaxRecordings

\* ------------------------------------------------------- actions of app.js
HandleStartClick ==
    /\ page = "app"
    /\ app.appState \in {"idle", "stopped", "error"}
    /\ ~app.startPending
    /\ AppMayAcquire(app)
    /\ app' = [app EXCEPT !.appState = "initializing",
                          !.lastStatus = "statusInitializing",
                          !.recordEnabled = FALSE,
                          !.startPending = TRUE]
    /\ UNCHANGED <<page, main>>

InitMicResolved ==
    /\ page = "app"
    /\ app.startPending
    /\ \E failAt \in InitFailPoints, host \in RecorderHosts,
          err \in ConstructorErrors :
         LET got == initMicGranted([app EXCEPT !.startPending = FALSE],
                                   failAt, host)
         IN  app' = AppCollect(IF got[2]
                               THEN startFailed(got[1], initMicErrorMessage(err))
                                         ELSE startSucceeded(got[1]))
    /\ UNCHANGED <<page, main>>

InitMicRejected ==
    /\ page = "app"
    /\ app.startPending
    /\ \E name \in GetUserMediaErrors, text \in ErrorTexts :
         app' = startFailed([app EXCEPT !.startPending = FALSE],
                            initMicErrorMessage([name |-> name,
                                                 message |-> text]))
    /\ UNCHANGED <<page, main>>

HandleStopClick ==
    /\ page = "app"
    /\ app.appState \in {"testing", "recording"}
    /\ app' = AppCollect(handleStopClick(app))
    /\ UNCHANGED <<page, main>>

\* the click listener of the Record control runs: its own guard is appState
\* (line 180); whether the control is enabled for the user is recordEnabled
HandleRecordClick ==
    /\ page = "app"
    /\ app.appState = "testing"
    /\ AppMayRecord(app)
    /\ app' = AppCollect(handleRecordClick(app))
    /\ UNCHANGED <<page, main>>

\* ---------------------------------------------- events the browser delivers
\* a pending animation frame of the analysis loop runs while the microphone
\* delivers digital silence (what the loop does next does not depend on the
\* samples)
AnalysisFrame ==
    /\ page = "app"
    /\ \E f \in app.frames :
         \E data \in QuietWindows,
            reenter \in (IF app.subscriber = "external" THEN BOOLEAN ELSE {FALSE}) :
           app' = AppCollect(
                    processAudioLoop([app EXCEPT !.frames = @ \ {f}], data,
                                     reenter))
    /\ UNCHANGED <<page, main>>

\* a pending animation frame of the analysis loop runs on any window
MeasuredFrame ==
    /\ page = "app"
    /\ \E f \in app.frames, data \in Windows :
         app' = AppCollect(
                  processAudioLoop([app EXCEPT !.frames = @ \ {f}], data, FALSE))
    /\ UNCHANGED <<page, main>>

\* the auto-stop timer of startRecording fires
RecordingTimer ==
    /\ page = "app"
    /\ \E t \in app.timers :
         app' = AppCollect(stopRecording([app EXCEPT !.timers = @ \ {t}]))
    /\ UNCHANGED <<page, main>>

\* the encoder delivers a chunk of the recording in progress
AppDataAvailable ==
    /\ page = "app"
    /\ \E r \in DOMAIN app.recorders, size \in {0, 1} :
         /\ app.recorders[r].state = "recording"
         /\ Len(app.recordedChunks) < MaxChunks
         /\ app' = AppCollect(ondataavailable(app, app.recorders[r].rec, size))
    /\ UNCHANGED <<page, main>>

\* the stop task of a recorder: the final dataavailable, then stop
AppRecorderStopped ==
    /\ page = "app"
    /\ \E r \in DOMAIN app.recorders, size \in {0, 1} :
         /\ app.recorders[r].stopQueue # <<>>
         /\ size > 0 => Len(app.recordedChunks) < MaxChunks
         /\ LET rec == Head(app.recorders[r].stopQueue)
                w1  == [app EXCEPT !.recorders[r].stopQueue = Tail(@)]
            IN  app' = AppCollect(onstop(ondataavailable(w1, rec, size), r))
    /\ UNCHANGED <<page, main>>

\* the encoder fails: the error event, and the recorder is inactivated
AppRecorderError ==
    /\ page = "app"
    /\ \E r \in DOMAIN app.recorders :
         /\ app.recorders[r].state = "recording"
         /\ app' = AppCollect(
                     onerror([app EXCEPT !.recorders[r] = RecorderInactivate(@)], r))
    /\ UNCHANGED <<page, main>>

\* the recorder stops on its own (the device is lost, its tracks end)
AppRecorderEnds ==
    /\ page = "app"
    /\ \E r \in DOMAIN app.recorders :
         /\ app.recorders[r].state = "recording"
         /\ app' = AppCollect([app EXCEPT !.recorders[r] = RecorderInactivate(@)])
    /\ UNCHANGED <<page, main>>

\* ------------------------------------- window.MicAnalyzer called by a script
\* initMic() up to its await of getUserMedia
CallInitMic ==
    /\ page = "app"
    /\ AppMayAcquire(app)
    /\ app' = [app EXCEPT !.initMicPending = @ + 1]
    /\ UNCHANGED <<page, main>>

CallInitMicResolved ==
    /\ page = "app"
    /\ app.initMicPending > 0
    /\ \E failAt \in InitFailPoints, host \in RecorderHosts :
         app' = AppCollect(initMicGranted(
                    [app EXCEPT !.initMicPending = @ - 1], failAt, host)[1])
    /\ UNCHANGED <<page, main>>

CallInitMicRejected ==
    /\ page = "app"
    /\ app.initMicPending > 0
    /\ app' = [app EXCEPT !.initMicPending = @ - 1]
    /\ UNCHANGED <<page, main>>

CallStartAnalysis ==
    /\ page = "app"
    /\ app' = AppCollect(startAnalysis(app, "external"))
    /\ UNCHANGED <<page, main>>

CallStopAnalysis ==
    /\ page = "app"
    /\ app' = AppCollect(stopAnalysis(app))
    /\ UNCHANGED <<page, main>>

CallStartRecording ==
    /\ page = "app"
    /\ AppMayRecord(app)
    /\ app' = AppCollect(startRecording(app))
    /\ UNCHANGED <<page, main>>

CallStopRecording ==
    /\ page = "app"
    /\ app' = AppCollect(stopRecording(app))
    /\ UNCHANGED <<page, main>>

CallCleanup ==
    /\ page = "app"
    /\ app' = AppCollect(cleanup(app))
    /\ UNCHANGED <<page, main>>

\* audioContext.close() of context c resolves; cleanup() resumes
CleanupResumed ==
    /\ page = "app"
    /\ \E c \in DOMAIN app.contexts :
         /\ app.contexts[c] = "closing"
         /\ app' = AppCollect(cleanupResumed(app, c))
    /\ UNCHANGED <<page, main>>

AppEvents ==
    \/ AnalysisFrame
    \/ RecordingTimer
    \/ AppDataAvailable
    \/ AppRecorderStopped
    \/ AppRecorderError
    \/ AppRecorderEnds

AppHandlers ==
    \/ HandleStartClick
    \/ InitMicResolved
    \/ InitMicRejected
    \/ HandleStopClick
    \/ HandleRecordClick

AnalyzerCalls ==
    \/ CallInitMic
    \/ CallInitMicResolved
    \/ CallInitMicRejected
    \/ CallStartAnalysis
    \/ CallStopAnalysis
    \/ CallStartRecording
    \/ CallStopRecording
    \/ CallCleanup
    \/ CleanupResumed

\* ================================================================ main.js /
\* audio.js
\* config.js
FFT_SIZE == 2048

\* AnalyserNode.frequencyBinCount
frequencyBinCount(fftSize) == fftSize \div 2

\* mrs: 'MediaRecorder' in window
MainInit(mrs) ==
    [ \* audio.js module scope
      audioContext |-> 0, analyserNode |-> 0, sourceNode |-> 0,
      mediaStream |-> 0, mediaRecorder |-> 0, audioChunks |-> <<>>,
      isMonitoring |-> FALSE, isRecording |-> FALSE,
      timeDomainData |-> 0, frequencyData |-> 0,
      mediaRecorderSupported |-> mrs,
      animationFrameId |-> 0, visualizationLoopCallback |-> FALSE,
      \* main.js module scope
      mainAnimationFrameId |-> 0,
      \* ui.js: the recording status line, the player's src
      recStatus |-> "none", playbackSrc |-> 0,
      \* browser
      streams |-> <<>>, contexts |-> <<>>, recorders |-> <<>>,
      frames |-> {}, urls |-> <<>>,
      \* startMonitoring() calls awaiting getUserMedia
      startsPending |-> 0 ]

\* mimeType is read by the stop handlers only, and of the recorder the module
\* variable holds: any other is forgotten, and so is that of the held
\* recorder once no stop event is left to come
Forgotten(recorders, held) ==
    [i \in DOMAIN recorders |->
       IF i = held /\ Recordings(recorders) # {} THEN recorders[i]
       ELSE [recorders[i] EXCEPT !.mimeType = ""]]

\* pending frames all run the same loop: the one main.js holds is numbered
\* first, the one audio.js holds next (before: the held frames numbered
\* ahead of h)
FrameHandle(h, frames, before) ==
    IF h = 0 THEN 0
    ELSE IF h \in frames THEN before + 1
    ELSE Cardinality(frames) + 1

MainCollect(w) ==
    LET ks == {i \in DOMAIN w.streams :
                 \/ w.streams[i] = "live"
                 \/ i = w.mediaStream}
        kc == {i \in DOMAIN w.contexts :
                 w.contexts[i] # "closed" \/ i = w.audioContext}
        kr == {i \in DOMAIN w.recorders :
                 RecorderAlive(w.recorders[i]) \/ i = w.mediaRecorder}
        ku == {i \in DOMAIN w.urls :
                 ~w.urls[i].revoked \/ i = w.playbackSrc}
        alive == Recordings(w.recorders)
    IN  [w EXCEPT !.streams = Compact(w.streams, ks),
                  !.mediaStream = Handle(@, ks),
                  !.contexts = Compact(w.contexts, kc),
                  !.audioContext = Handle(@, kc),
                  !.recorders =
                     Forgotten(
                       Restreamed(Retagged(Compact(w.recorders, kr), alive),
                                w.streams, ks),
                       Handle(w.mediaRecorder, kr)),
                  !.mediaRecorder = Handle(@, kr),
                  !.audioChunks = [k \in DOMAIN @ |-> Retag(@[k], alive)],
                  !.urls = Compact(w.urls, ku),
                  !.playbackSrc = Handle(@, ku),
                  !.frames = 1..Cardinality(w.frames),
                  !.animationFrameId =
                     FrameHandle(@, w.frames,
                                 IF w.mainAnimationFrameId \in w.frames
                                 THEN 1 ELSE 0),
                  !.mainAnimationFrameId = FrameHandle(@, w.frames, 0)]

\* requestAnimationFrame(visualizationLoop): a handle neither pending nor held
mainFreshFrame(w) ==
    Fresh(w.frames \cup {w.animationFrameId, w.mainAnimationFrameId})

\* ui.hidePlayback(): player.src = ''
hidePlayback(w) == [w EXCEPT !.playbackSrc = 0]

\* ---- recording (audio.js)
Candidates ==
    <<"audio/webm;codecs=opus", "audio/ogg;codecs=opus", "audio/webm", "">>

SupportPredicates == [{Candidates[1], Candidates[2], Candidates[3]} -> BOOLEAN]

\* a negotiation that asks for audio/webm before audio/ogg;codecs=opus
negotiateWebmBeforeOgg(sup) ==
    IF sup["audio/webm;codecs=opus"] THEN "audio/webm;codecs=opus"
    ELSE IF sup["audio/webm"] THEN "audio/webm"
    ELSE IF sup["audio/ogg;codecs=opus"] THEN "audio/ogg;codecs=opus"
    ELSE ""

\* the options.mimeType startRecording settles on, "" for options = {};
\* sup is MediaRecorder.isTypeSupported
negotiateMimeType(sup) ==
    IF ~sup["audio/webm;codecs=opus"]
    THEN IF ~sup["audio/ogg;codecs=opus"]
         THEN IF ~sup["audio/webm"]
              THEN ""
              ELSE "audio/webm"
         ELSE "audio/ogg;codecs=opus"
    ELSE "audio/webm;codecs=opus"

audioStopRecording(w) ==
    IF \/ ~w.isRecording
       \/ w.mediaRecorder = 0
       \/ w.recorders[w.mediaRecorder].state = "inactive"
    THEN w
    ELSE [w EXCEPT !.recStatus = "recStatusStopping",
                   !.recorders[w.mediaRecorder] = RecorderInactivate(@)]

\* ctorThrows: new MediaRecorder(...) throws
audioStartRecording(w, sup, ctorThrows) ==
    IF ~w.isMonitoring \/ w.mediaStream = 0 \/ ~w.mediaRecorderSupported
    THEN [w EXCEPT !.recStatus = "recStatusCannotStart"]
    ELSE IF w.isRecording
    THEN w
    ELSE LET w1 == [w EXCEPT !.audioChunks = <<>>]
         IN  IF ctorThrows
             THEN [w1 EXCEPT !.recStatus = "recStatusErrorStart",
                             !.isRecording = FALSE]
             ELSE LET n  == NextRecording(w1.recorders)
                      r  == Len(w1.recorders) + 1
                      w2 == [w1 EXCEPT
                               !.recorders = Append(@, RecorderStart(
                                   NewRecorder(w1.mediaStream,
                                               negotiateMimeType(sup)), n)),
                               !.mediaRecorder = r,
                               !.isRecording = TRUE,
                               !.recStatus = "recStatusRecording"]
                  IN  hidePlayback(w2)

\* mediaRecorder.ondataavailable
audioOndataavailable(w, chunk, size) ==
    IF size > 0
    THEN [w EXCEPT !.audioChunks = Append(@, chunk)]
    ELSE w

\* mediaRecorder.onstop
audioOnstop(w) ==
    IF Len(w.audioChunks) = 0
    THEN hidePlayback([w EXCEPT !.recStatus = "recStatusEmpty",
                                !.isRecording = FALSE])
    ELSE [w EXCEPT !.urls = Append(@, [revoked |-> FALSE]),
                   !.playbackSrc = Len(w.urls) + 1,
                   !.recStatus = "recStatusFinished",
                   !.isRecording = FALSE,
                   !.audioChunks = <<>>]

\* mediaRecorder.onerror
audioOnerror(w) ==
    hidePlayback([w EXCEPT !.recStatus = "recStatusError",
                           !.isRecording = FALSE])

\* ---- monitoring (audio.js)
\* stopMonitoring() after its last await
stopMonitoringTail(w) ==
    hidePlayback([w EXCEPT !.isMonitoring = FALSE,
                           !.timeDomainData = 0,
                           !.frequencyData = 0])

\* stopMonitoring() up to its await of audioContext.close(); when there is
\* nothing to await (no context, or close() rejects at once because the
\* context is already closing) it runs to its end
stopMonitoring(w) ==
    IF ~w.isMonitoring /\ w.mediaStream = 0
    THEN w
    ELSE LET w1 == IF w.isRecording THEN audioStopRecording(w) ELSE w
             w2 == IF w1.animationFrameId # 0
                   THEN [w1 EXCEPT !.frames = @ \ {w1.animationFrameId},
                                   !.animationFrameId = 0]
                   ELSE w1
             w3 == IF w2.mediaStream # 0
                   THEN [w2 EXCEPT !.streams[w2.mediaStream] = "ended",
                                   !.mediaStream = 0]
                   ELSE w2
             w4 == [w3 EXCEPT !.sourceNode = 0, !.analyserNode = 0]
         IN  IF w4.audioContext # 0 /\ w4.contexts[w4.audioContext] # "closed"
             THEN IF w4.contexts[w4.audioContext] = "running"
                  THEN [w4 EXCEPT !.contexts[w4.audioContext] = "closing"]
                  ELSE stopMonitoringTail([w4 EXCEPT !.audioContext = 0])
             ELSE stopMonitoringTail(w4)

\* the continuation of stopMonitoring() once close() of context c resolved
stopMonitoringResumed(w, c) ==
    stopMonitoringTail([w EXCEPT !.contexts[c] = "closed", !.audioContext = 0])

\* startMonitoring's catch: err -> the key of the status line
startMonitoringErrorKey(err) ==
    IF err.name \in {"NotAllowedError", "PermissionDeniedError"}
    THEN "statusPermissionDenied"
    ELSE IF err.name \in {"NotFoundError", "DevicesNotFoundError"}
    THEN "statusMicNotFoundOnStart"
    ELSE IF err.name \in {"NotReadableError", "TrackStartError"}
    THEN "statusMicInUse"
    ELSE IF err.name = "OverconstrainedError"
    THEN "statusMicConstraint"
    ELSE "statusErrorStartingMic"

\* startMonitoring's catch block: the status line, then stopMonitoring
startMonitoringFailed(w) == stopMonitoring(w)

\* The try block of startMonitoring after the stream was granted; failAt as
\* for initMic.
startMonitoringGranted(w, failAt) ==
    LET w1 == [w EXCEPT !.streams = Append(@, NewStream),
                        !.mediaStream = Len(w.streams) + 1]
        w2 == [w1 EXCEPT !.contexts = Append(@, NewContext),
                         !.audioContext = Len(w1.contexts) + 1]
        w3 == [w2 EXCEPT !.analyserNode = 1]
        w4 == [w3 EXCEPT !.sourceNode = 1]
        w5 == [w4 EXCEPT !.timeDomainData = frequencyBinCount(FFT_SIZE),
                         !.frequencyData = frequencyBinCount(FFT_SIZE),
                         !.isMonitoring = TRUE]
        w6 == IF w5.visualizationLoopCallback
              THEN LET f == mainFreshFrame(w5)
                   IN  [w5 EXCEPT !.frames = @ \cup {f}, !.animationFrameId = f]
              ELSE w5
    IN  CASE failAt = "AudioContext" -> startMonitoringFailed(w1)
          [] failAt = "createMediaStreamSource" -> startMonitoringFailed(w3)
          [] OTHER -> w6

\* main.js: handleStartStopClick after startMonitoring returned true
startStopSucceeded(w) ==
    IF w.mainAnimationFrameId = 0
    THEN LET f == mainFreshFrame(w)
         IN  [w EXCEPT !.visualizationLoopCallback = TRUE,
                       !.frames = @ \cup {f},
                       !.mainAnimationFrameId = f]
    ELSE w

\* main.js: whether a run of visualizationLoop reads the window and updates
\* the meter and the results bar
draws(w) ==
    w.isMonitoring /\ w.analyserNode # 0 /\ w.timeDomainData # 0
    /\ w.frequencyData # 0

\* main.js: one run of visualizationLoop
visualizationLoop(w) ==
    IF ~w.isMonitoring
    THEN [w EXCEPT !.mainAnimationFrameId = 0]
    ELSE LET f == mainFreshFrame(w)
         IN  [w EXCEPT !.frames = @ \cup {f}, !.mainAnimationFrameId = f]

\* startRecording(w, ...) gets as far as the negotiation
Negotiates(w) ==
    w.isMonitoring /\ w.mediaStream # 0 /\ w.mediaRecorderSupported
    /\ ~w.isRecording

AllSupported == [c \in {Candidates[1], Candidates[2], Candidates[3]} |-> TRUE]

\* the answers of the host that the call can observe: isTypeSupported, and
\* whether the constructor throws
HostAnswers(w) ==
    IF Negotiates(w)
    THEN (SupportPredicates \X {FALSE}) \cup {<<AllSupported, TRUE>>}
    ELSE {<<AllSupported, FALSE>>}

MainMayAcquire(w) ==
    /\ Cardinality(LiveStreams(w.streams)) + w.startsPending < MaxStreams
    /\ Cardinality(OpenContexts(w.contexts)) + w.startsPending < MaxStreams

MainMayRecord(w) ==
    Cardinality(Recordings(w.recorders)) + Len(w.urls) < MaxRecordings

\* ------------------------------------------------------ actions of main.js
\* handleStartStopClick while not monitoring: startMonitoring up to its await
StartClick ==
    /\ page = "main"
    /\ ~main.isMonitoring
    /\ MainMayAcquire(main)
    /\ main' = [main EXCEPT !.startsPending = @ + 1]
    /\ UNCHANGED <<page, app>>

StartMonitoringResolved ==
    /\ page = "main"
    /\ main.startsPending > 0
    /\ \E failAt \in InitFailPoints :
         LET w  == startMonitoringGranted(
                       [main EXCEPT !.startsPending = @ - 1], failAt)
             w1 == IF failAt = "none" THEN startStopSucceeded(w) ELSE w
         IN  /\ Cardinality(w1.frames) <= MaxFrames
             /\ main' = MainCollect(w1)
    /\ UNCHANGED <<page, app>>

StartMonitoringRejected ==
    /\ page = "main"
    /\ main.startsPending > 0
    /\ main' = MainCollect(startMonitoringFailed(
                   [main EXCEPT !.startsPending = @ - 1]))
    /\ UNCHANGED <<page, app>>

\* handleStartStopClick while monitoring
StopClick ==
    /\ page = "main"
    /\ main.isMonitoring
    /\ main' = MainCollect(stopMonitoring(main))
    /\ UNCHANGED <<page, app>>

StopMonitoringResumed ==
    /\ page = "main"
    /\ \E c \in DOMAIN main.contexts :
         /\ main.contexts[c] = "closing"
         /\ main' = MainCollect(stopMonitoringResumed(main, c))
    /\ UNCHANGED <<page, app>>

\* handleRecordClick
RecordClick ==
    /\ page = "main"
    /\ main.isRecording \/ MainMayRecord(main)
    /\ \E host \in HostAnswers(main) :
         main' = MainCollect(IF main.isRecording
                             THEN audioStopRecording(main)
                             ELSE audioStartRecording(main, host[1], host[2]))
    /\ UNCHANGED <<page, app>>

\* audio.startRecording / audio.stopRecording called by a script
CallAudioStartRecording ==
    /\ page = "main"
    /\ MainMayRecord(main)
    /\ \E host \in HostAnswers(main) :
         main' = MainCollect(audioStartRecording(main, host[1], host[2]))
    /\ UNCHANGED <<page, app>>

CallAudioStopRecording ==
    /\ page = "main"
    /\ main' = MainCollect(audioStopRecording(main))
    /\ UNCHANGED <<page, app>>

\* a pending animation frame runs visualizationLoop
VisualizationFrame ==
    /\ page = "main"
    /\ \E f \in main.frames :
         main' = MainCollect(visualizationLoop([main EXCEPT !.frames = @ \ {f}]))
    /\ UNCHANGED <<page, app>>

MainDataAvailable ==
    /\ page = "main"
    /\ \E r \in DOMAIN main.recorders, size \in {0, 1} :
         /\ main.recorders[r].state = "recording"
         /\ Len(main.audioChunks) < MaxChunks
         /\ main' = MainCollect(
                      audioOndataavailable(main, main.recorders[r].rec, size))
    /\ UNCHANGED <<page, app>>

MainRecorderStopped ==
    /\ page = "main"
    /\ \E r \in DOMAIN main.recorders, size \in {0, 1} :
         /\ main.recorders[r].stopQueue # <<>>
         /\ size > 0 => Len(main.audioChunks) < MaxChunks
         /\ LET rec == Head(main.recorders[r].stopQueue)
                w1  == [main EXCEPT !.recorders[r].stopQueue = Tail(@)]
            IN  main' = MainCollect(
                          audioOnstop(audioOndataavailable(w1, rec, size)))
    /\ UNCHANGED <<page, app>>

MainRecorderError ==
    /\ page = "main"
    /\ \E r \in DOMAIN main.recorders :
         /\ main.recorders[r].state = "recording"
         /\ main' = MainCollect(audioOnerror(
                      [main EXCEPT !.recorders[r] = RecorderInactivate(@)]))
    /\ UNCHANGED <<page, app>>

\* the recorder stops on its own (the device is lost, its tracks end)
MainRecorderEnds ==
    /\ page = "main"
    /\ \E r \in DOMAIN main.recorders :
         /\ main.recorders[r].state = "recording"
         /\ main' = MainCollect(
                      [main EXCEPT !.recorders[r] = RecorderInactivate(@)])
    /\ UNCHANGED <<page, app>>

NextMain ==
    \/ StartClick
    \/ StartMonitoringResolved
    \/ StartMonitoringRejected
    \/ StopClick
    \/ StopMonitoringResumed
    \/ RecordClick
    \/ CallAudioStartRecording
    \/ CallAudioStopRecording
    \/ VisualizationFrame
    \/ MainDataAvailable
    \/ MainRecorderStopped
    \/ MainRecorderError
    \/ MainRecorderEnds

Pages == {"app", "main"}

Init ==
    /\ page \in Pages
    /\ app = AppInit
    /\ \E mrs \in BOOLEAN : main = MainInit(mrs)
    /\ page = "app" => main = MainInit(TRUE)

\* index.html of main.js / audio.js
SpecMain == Init /\ [][NextMain]_vars

\* the page as shipped: app.js is the only caller of window.MicAnalyzer
NextApp == AppHandlers \/ AppEvents

SpecApp == Init /\ [][NextApp]_vars

\* the page as shipped, with the scheduling the host guarantees: a recorder
\* that was stopped (by stop(), by an error or on its own) eventually gets
\* its stop event, and an armed auto-stop timer eventually fires unless it
\* is cleared first
FairApp == WF_vars(AppRecorderStopped) /\ WF_vars(RecordingTimer)

SpecAppFair == SpecApp /\ FairApp

\* analyzer.js under any caller of window.MicAnalyzer that hands it app.js's
\* callbacks
NextAnalyzer == AnalyzerCalls \/ AppEvents

SpecAnalyzer == Init /\ [][NextAnalyzer]_vars

\* Both engines under callers that open one session at a time: a session
\* is requested only when no stream is live, no request is pending and no
\* context is open.
AppQuiet ==
    /\ LiveStreams(app.streams) = {}
    /\ OpenContexts(app.contexts) = {}
    /\ app.initMicPending = 0

MainQuiet ==
    /\ LiveStreams(main.streams) = {}
    /\ OpenContexts(main.contexts) = {}
    /\ main.startsPending = 0

NextSession ==
    \/ AppQuiet /\ CallInitMic
    \/ CallInitMicResolved
    \/ CallInitMicRejected
    \/ CallStartAnalysis
    \/ CallStopAnalysis
    \/ CallStartRecording
    \/ CallStopRecording
    \/ CallCleanup
    \/ CleanupResumed
    \/ AppEvents
    \/ MainQuiet /\ StartClick
    \/ StartMonitoringResolved
    \/ StartMonitoringRejected
    \/ StopClick
    \/ StopMonitoringResumed
    \/ RecordClick
    \/ CallAudioStartRecording
    \/ CallAudioStopRecording
    \/ VisualizationFrame
    \/ MainDataAvailable
    \/ MainRecorderStopped
    \/ MainRecorderError
    \/ MainRecorderEnds

SpecSession == Init /\ [][NextSession]_vars

\* app.js opening one session at a time, its loop ticking on any window
NextMetrics ==
    \/ AppQuiet /\ HandleStartClick
    \/ InitMicResolved
    \/ InitMicRejected
    \/ HandleStopClick
    \/ MeasuredFrame

SpecMetrics == Init /\ [][NextMetrics]_vars

\* the two pages as shipped, a script that calls MicAnalyzer.stopAnalysis()
\* beside app.js, and main.js opening one session at a time
NextPanel ==
    \/ NextApp
    \/ CallStopAnalysis
    \/ MainQuiet /\ StartClick
    \/ StartMonitoringResolved
    \/ StartMonitoringRejected
    \/ StopClick
    \/ StopMonitoringResumed
    \/ RecordClick
    \/ CallAudioStartRecording
    \/ CallAudioStopRecording
    \/ VisualizationFrame
    \/ MainDataAvailable
    \/ MainRecorderStopped
    \/ MainRecorderError
    \/ MainRecorderEnds

SpecPanel == Init /\ [][NextPanel]_vars

\* ================================================================== claims
\* the state of the recorder a module holds, in the terms of the recorder's
\* life cycle: Recording; Stopping while its stop event is still to come;
\* Idle otherwise; NoSession when the module holds none
RecorderPhase(recorders, held) ==
    IF held = 0 THEN "NoSession"
    ELSE IF recorders[held].state = "recording" THEN "Recording"
    ELSE IF recorders[held].stopQueue # <<>> THEN "Stopping"
    ELSE "Idle"

AppRecorderPhase == RecorderPhase(app.recorders, app.mediaRecorder)

MainRecorderPhase ==
    IF ~main.isMonitoring \/ main.mediaStream = 0 THEN "NoSession"
    ELSE IF main.mediaRecorder = 0 THEN "Idle"
    ELSE RecorderPhase(main.recorders, main.mediaRecorder)

\* ---- C1
\* C1: in every reachable state at most one acquired input stream has live
\* tracks, on either page.
C1_AtMostOneLiveStream ==
    /\ Cardinality(LiveStreams(app.streams)) <= 1
    /\ Cardinality(LiveStreams(main.streams)) <= 1

\* ---- C2
\* C2: a step that completes a Stop Testing request (handleStopClick in
\* app.js; the end of stopMonitoring in audio.js) leaves no stream with live
\* tracks and no audio context that is not closed.
C2_StopReleasesMicrophone ==
    [][ /\ HandleStopClick =>
             /\ LiveStreams(app'.streams) = {}
             /\ OpenContexts(app'.contexts) = {}
        /\ StopMonitoringResumed =>
             /\ LiveStreams(main'.streams) = {}
             /\ OpenContexts(main'.contexts) = {} ]_vars

\* ---- C3
\* C3: no subscriber callback of the analysis loop runs after stopAnalysis()
\* has returned and before the loop is started again.
C3_NoTickAfterStop == app.sinceStop # "late"

\* ---- C4
\* the stop event of recorder r whose final chunk is empty, handled while
\* the chunk buffer holds nothing
AppEmptyStopEvent(r) ==
    /\ page = "app"
    /\ app.recorders[r].stopQueue # <<>>
    /\ app.recordedChunks = <<>>
    /\ app' = AppCollect(onstop(
                 [app EXCEPT !.recorders[r].stopQueue = Tail(@)], r))

MainEmptyStopEvent(r) ==
    /\ page = "main"
    /\ main.recorders[r].stopQueue # <<>>
    /\ main.audioChunks = <<>>
    /\ main' = MainCollect(audioOnstop(
                 [main EXCEPT !.recorders[r].stopQueue = Tail(@)]))

\* C4: every step that handles the stop event of a recording for which no
\* non-empty chunk was collected reports NoDataRecorded (errorRecordingNoData
\* on app.js's status line, recStatusEmpty on main.js's) and creates no URL.
C4_EmptyRecordingFails ==
    [][ /\ \A r \in DOMAIN app.recorders :
             AppEmptyStopEvent(r) =>
               /\ app'.lastStatus = "errorRecordingNoData"
               /\ Len(app'.urls) = Len(app.urls)
        /\ \A r \in DOMAIN main.recorders :
             MainEmptyStopEvent(r) =>
               /\ main'.recStatus = "recStatusEmpty"
               /\ Len(main'.urls) = Len(main.urls) ]_vars

\* ---- C5
\* the first candidate the host supports, in the order of Candidates; the
\* last candidate (the platform default) needs no support
FirstSupported(sup) ==
    LET ok == {k \in 1..3 : sup[Candidates[k]]}
    IN  IF ok = {} THEN Candidates[4]
        ELSE Candidates[CHOOSE k \in ok : \A j \in ok : k <= j]

OggOnly ==
    [c \in DOMAIN AllSupported |-> c # "audio/webm;codecs=opus"]

\* C5: in every state in which startRecording (audio.js) gets as far as the
\* negotiation, and for every support predicate of the host, the recorder it
\* creates has the first supported candidate in the order webm-opus,
\* ogg-opus, webm, default; for {webm-opus: false, ogg-opus: true, webm:
\* true} that is ogg-opus.
C5_FirstSupportedCandidate ==
    /\ FirstSupported(OggOnly) = "audio/ogg;codecs=opus"
    /\ Negotiates(main) =>
         \A sup \in SupportPredicates :
           LET w == audioStartRecording(main, sup, FALSE)
           IN  /\ w.mediaRecorder # 0
               /\ w.recorders[w.mediaRecorder].state = "recording"
               /\ w.recorders[w.mediaRecorder].mimeType = FirstSupported(sup)

\* a recording runs on a recorder negotiated to ogg-opus
C5_Witness ==
    /\ page = "main"
    /\ main.mediaRecorder # 0
    /\ main.recorders[main.mediaRecorder].state = "recording"
    /\ main.recorders[main.mediaRecorder].mimeType = "audio/ogg;codecs=opus"

\* ---- C6
AppRecorderState(w) ==
    <<w.recorders, w.mediaRecorder, w.recordedChunks, w.timers,
      w.recordingTimerId>>

MainRecorderState(w) ==
    <<w.recorders, w.mediaRecorder, w.audioChunks, w.isRecording>>

NotIdle == {"Recording", "Stopping", "NoSession"}

\* C6: a step that calls startRecording while the recorder is Recording or
\* Stopping, or while no session is open, changes no recorder, no timer and
\* no chunk of the buffer.
C6_StartOnlyWhenIdle ==
    [][ /\ (AppRecorderPhase \in NotIdle /\ CallStartRecording) =>
             AppRecorderState(app') = AppRecorderState(app)
        /\ (MainRecorderPhase \in NotIdle /\ CallAudioStartRecording) =>
             MainRecorderState(main') = MainRecorderState(main) ]_vars

\* ---- C7
\* no recording is twice in a stop queue, and none that is still in progress
\* is in one
FinalizedOnce(recorders) ==
    \A i \in DOMAIN recorders :
      LET q == recorders[i].stopQueue
      IN  /\ \A j, k \in DOMAIN q : j # k => q[j] # q[k]
          /\ recorders[i].state = "recording" =>
               \A j \in DOMAIN q : q[j] # recorders[i].rec

WithoutTimers(w) == [w EXCEPT !.timers = {}, !.recordingTimerId = 0]

\* C7 (as amended): in every reachable state in which the held recorder is
\* not Recording, a stop request (stopRecording called, or the auto-stop timer
\* firing) asks no encoder to finalize and changes no recorder, chunk or
\* reported outcome: audio.js's changes nothing at all, analyzer.js's changes
\* nothing but the auto-stop timer, which it cancels (analyzer.js line 259).
\* No recording is asked to finalize twice, whatever the order of manual
\* stops, timer and teardown.
C7_StopOnlyWhileRecording ==
    /\ AppRecorderPhase # "Recording" =>
         /\ WithoutTimers(stopRecording(app)) = WithoutTimers(app)
         /\ stopRecording(app).timers = app.timers \ {app.recordingTimerId}
         /\ \A t \in app.timers :
              WithoutTimers(stopRecording([app EXCEPT !.timers = @ \ {t}]))
                = WithoutTimers(app)
    /\ RecorderPhase(main.recorders, main.mediaRecorder) # "Recording" =>
         audioStopRecording(main) = main
    /\ FinalizedOnce(app.recorders)
    /\ FinalizedOnce(main.recorders)

\* analyzer.js's recorder is Stopping after stopRecording() was called on it,
\* and a further stop request has taken the auto-stop timer away before the
\* stop event arrived
C7_Witness ==
    /\ page = "app"
    /\ AppRecorderPhase = "Stopping"
    /\ app.recorders[app.mediaRecorder].callbacks
    /\ app.recordingTimerId # 0
    /\ app.timers = {}

\* C7 as stated: stopRecording called while the recorder is not Recording
\* changes nothing.
C7_StopChangesNothing ==
    /\ AppRecorderPhase # "Recording" => stopRecording(app) = app
    /\ RecorderPhase(main.recorders, main.mediaRecorder) # "Recording" =>
         audioStopRecording(main) = main
    /\ FinalizedOnce(app.recorders)
    /\ FinalizedOnce(main.recorders)

\* ---- C8
AppReleased(w) ==
    /\ w.microphoneStream = 0
    /\ w.mediaStreamSource = 0
    /\ w.analyserNode = 0
    /\ w.audioContext = 0

MainReleased(w) ==
    /\ w.mediaStream = 0
    /\ w.sourceNode = 0
    /\ w.analyserNode = 0
    /\ w.audioContext = 0

\* the ghost history of the loop set aside
WithoutHistory(w) == [w EXCEPT !.sinceStop = "running"]

\* C8: a step in which cleanup() or stopMonitoring() returns leaves the
\* stream, source, analyser and context references released and no stream
\* live, and a second call right after it changes nothing.
C8_CloseReleasesAll ==
    [][ /\ CleanupResumed =>
             /\ AppReleased(app')
             /\ LiveStreams(app'.streams) = {}
             /\ WithoutHistory(AppCollect(cleanup(app'))) = WithoutHistory(app')
        /\ StopMonitoringResumed =>
             /\ MainReleased(main')
             /\ LiveStreams(main'.streams) = {}
             /\ MainCollect(stopMonitoring(main')) = main' ]_vars

\* ---- C9
\* C9: a step in which opening a session fails (getUserMedia rejects, or a
\* constructor throws after the stream was granted) leaves the stream,
\* context, analyser and source references cleared, the granted stream
\* stopped and the session not marked as monitoring.
C9_FailedOpenTornDown ==
    [][ /\ ((InitMicResolved \/ InitMicRejected) /\ app'.appState = "error") =>
             /\ AppReleased(app')
             /\ Cardinality(LiveStreams(app'.streams))
                  <= Cardinality(LiveStreams(app.streams))
        /\ ((StartMonitoringRejected \/ StartMonitoringResolved)
              /\ ~main'.isMonitoring
              /\ \A c \in DOMAIN main'.contexts :
                   main'.contexts[c] # "closing") =>
             /\ MainReleased(main')
             /\ Cardinality(LiveStreams(main'.streams))
                  <= Cardinality(LiveStreams(main.streams)) ]_vars

\* ---- C10
\* C10: in no reachable state have the tracks of a stream been stopped while
\* a recorder on it is Recording or Stopping, or is a frame of the loop
\* scheduled while no stream is live.
C10_ReleaseAfterDependents ==
    /\ \A i \in DOMAIN app.recorders :
         RecorderAlive(app.recorders[i]) => app.recorders[i].stream # Ended
    /\ \A i \in DOMAIN main.recorders :
         RecorderAlive(main.recorders[i]) => main.recorders[i].stream # Ended
    /\ app.frames # {} => LiveStreams(app.streams) # {}
    /\ main.frames # {} => LiveStreams(main.streams) # {}

\* ---- C11
\* C11: every error event of the encoder while a recording is active ends
\* the recording and reports the failure to the caller: the onError callback
\* of analyzer.js's caller has run (app.js shows errorRecordingGeneric), the
\* page of audio.js shows recStatusError and is no longer recording; this
\* holds also when stopRecording() was never called for that recording.
C11_EncoderErrorReported ==
    [][ /\ AppRecorderError => app'.lastStatus = "errorRecordingGeneric"
        /\ MainRecorderError =>
             /\ main'.recStatus = "recStatusError"
             /\ ~main'.isRecording ]_vars

\* ---- C12
AppLoop(w) == <<w.animationFrameId, w.frames, w.subscriber>>

MainLoop(w) ==
    <<w.isMonitoring, w.animationFrameId, w.mainAnimationFrameId, w.frames,
      w.visualizationLoopCallback>>

AppRecording(w) == <<w.mediaRecorder, w.recorders, w.recordedChunks>>

\* C12 (as amended): in every reachable state, starting or stopping a
\* recording and handling any event of an encoder would change neither
\* whether the loop runs nor which tick is scheduled, and stopAnalysis()
\* would change neither the recorders nor the collected chunks; the Stop
\* button of app.js, which calls stopAnalysis(), does to the recorders and
\* the chunks exactly what stopRecording() does when the page is recording,
\* and nothing otherwise.
C12_LoopAndRecorderIndependent ==
    /\ AppLoop(startRecording(app)) = AppLoop(app)
    /\ AppLoop(handleRecordClick(app)) = AppLoop(app)
    /\ AppLoop(stopRecording(app)) = AppLoop(app)
    /\ \A r \in DOMAIN app.recorders, size \in {0, 1} :
         LET delivered == ondataavailable(app, app.recorders[r].rec, size)
         IN  /\ AppLoop(delivered) = AppLoop(app)
             /\ AppLoop(onstop(delivered, r)) = AppLoop(app)
             /\ AppLoop(onerror(app, r)) = AppLoop(app)
    /\ \A host \in HostAnswers(main) :
         MainLoop(audioStartRecording(main, host[1], host[2])) = MainLoop(main)
    /\ MainLoop(audioStopRecording(main)) = MainLoop(main)
    /\ \A r \in DOMAIN main.recorders, size \in {0, 1} :
         LET delivered == audioOndataavailable(main, main.recorders[r].rec, size)
         IN  /\ MainLoop(delivered) = MainLoop(main)
             /\ MainLoop(audioOnstop(delivered)) = MainLoop(main)
             /\ MainLoop(audioOnerror(main)) = MainLoop(main)
    /\ AppRecording(stopAnalysis(app)) = AppRecording(app)
    /\ AppRecording(handleStopClick(app)) =
         AppRecording(IF app.appState = "recording" THEN stopRecording(app)
                                                    ELSE app)

\* the Stop button was pressed while recording: the loop is stopped and the
\* recorder is Stopping
C12_Witness ==
    /\ app.appState = "stopped"
    /\ app.animationFrameId = 0
    /\ AppRecorderPhase = "Stopping"

\* C12 as stated: the Stop button leaves the recorder as it was
C12_StopLeavesRecorder ==
    [][ HandleStopClick => AppRecording(app') = AppRecording(app) ]_vars

\* ---- C13
\* C13: when stopRecording() of analyzer.js is called while the recording is
\* in progress, it cancels the auto-stop timer of that recording: once the
\* call has returned no timer is pending.
C13_ManualStopCancelsTimer ==
    [][ (CallStopRecording /\ AppRecorderPhase = "Recording") =>
           app'.timers = {} ]_vars

\* ---- C14
NoneSupported == [c \in DOMAIN AllSupported |-> FALSE]

\* C14: on a host that has MediaRecorder and reports no candidate as
\* supported, a recording that is started still constructs an encoder with
\* the platform default and records: after initMic() of analyzer.js has
\* resolved on such a host, startRecording() leaves a recorder recording;
\* startRecording() of audio.js constructs a recorder without a mimeType,
\* and reports recStatusErrorStart only when the constructor throws.
C14_DefaultWhenNoneSupported ==
    /\ app.initMicPending > 0 =>
         LET opened == initMicGranted([app EXCEPT !.initMicPending = @ - 1],
                                      "none", "webmUnsupported")[1]
             started == startRecording(opened)
         IN  /\ started.mediaRecorder # 0
             /\ started.recorders[started.mediaRecorder].state = "recording"
             /\ started.lastStatus # "errorRecordingGeneric"
    /\ Negotiates(main) =>
         LET started == audioStartRecording(main, NoneSupported, FALSE)
             failed  == audioStartRecording(main, NoneSupported, TRUE)
         IN  /\ started.isRecording
             /\ started.recStatus = "recStatusRecording"
             /\ started.recorders[started.mediaRecorder].state = "recording"
             /\ started.recorders[started.mediaRecorder].mimeType = ""
             /\ failed.recStatus = "recStatusErrorStart"

\* ---- C15
\* the blob URLs that were created and not revoked
LiveUrls(urls) == {i \in DOMAIN urls : ~urls[i].revoked}

\* C15: while an encoder is recording, the blob URL of every earlier
\* recording has been revoked and the page exposes none; in every reachable
\* state at most one blob URL of a recording exists that was not revoked.
C15_OneLiveArtifact ==
    /\ Cardinality(LiveUrls(app.urls)) <= 1
    /\ Cardinality(LiveUrls(main.urls)) <= 1
    /\ AppRecorderPhase = "Recording" =>
         LiveUrls(app.urls) = {} /\ app.currentBlobUrl = 0
    /\ main.isRecording =>
         LiveUrls(main.urls) = {} /\ main.playbackSrc = 0

\* ---- C16
\* the chunks the Blob of a stop event is built from: the buffer once the
\* final chunk of the stopped recording was delivered
AppArtifactParts(r, size) ==
    ondataavailable(app, Head(app.recorders[r].stopQueue), size).recordedChunks

MainArtifactParts(r, size) ==
    audioOndataavailable(main, Head(main.recorders[r].stopQueue),
                         size).audioChunks

\* C16: whenever the stop event of a recording is due, the chunks its Blob
\* is built from are chunks of that recording only, and the final chunk is
\* among them if and only if it is not empty; the buffer never holds an
\* entry for an empty chunk (entries are recording tags, all positive while
\* the recording is still to finalize).
C16_ArtifactOfOwnChunks ==
    /\ \A r \in DOMAIN app.recorders, size \in {0, 1} :
         app.recorders[r].stopQueue # <<>> =>
           LET rec   == Head(app.recorders[r].stopQueue)
               parts == AppArtifactParts(r, size)
           IN  /\ \A k \in DOMAIN parts : parts[k] = rec
               /\ Len(parts) = Len(app.recordedChunks) + size
    /\ \A r \in DOMAIN main.recorders, size \in {0, 1} :
         main.recorders[r].stopQueue # <<>> =>
           LET rec   == Head(main.recorders[r].stopQueue)
               parts == MainArtifactParts(r, size)
           IN  /\ \A k \in DOMAIN parts : parts[k] = rec
               /\ Len(parts) = Len(main.audioChunks) + size

\* ---- C17
\* the power of a window (the sum of its squared amplitudes) and whether its
\* rms level is below the silence threshold of -50 dBFS, where the power
\* is less than FullScale / 10^5
WindowPower(data) ==
    LET RECURSIVE Sum(_)
        Sum(runs) ==
          IF runs = <<>> THEN 0
          ELSE Head(runs).count * (Head(runs).byte - 128) * (Head(runs).byte - 128)
                 + Sum(Tail(runs))
    IN  Sum(data)

WindowSilent(data) == WindowPower(data) <= FullScale \div 100000

\* a level as the snapshot shows it
Shown(level) == IF level > 0 THEN [power |-> level] ELSE [dB |-> -100]

\* the order of the levels snapshots show: -100 dB is below every other
ShownLeq(a, b) ==
    \/ "dB" \in DOMAIN a
    \/ "power" \in DOMAIN b /\ a.power <= b.power

\* the step is a tick of the running loop on the window data
TickOn(data) ==
    /\ page = "app"
    /\ app.analyserNode # 0
    /\ \E f \in app.frames :
         app' = AppCollect(
                  processAudioLoop([app EXCEPT !.frames = @ \ {f}], data, FALSE))

\* C17: a tick of the running loop never lowers the noise-floor estimate: on
\* a silent window (rms below -50 dBFS) the estimate becomes the greater of
\* the previous estimate and the window's rms level, on any other window it
\* stays what it was; the noiseLevel of the snapshot is the estimate after
\* the tick (-100 while there is none), and is not below the one the
\* previous tick of the run emitted.
C17_NoiseFloorNeverDecreases ==
    [][ \A data \in Windows :
          TickOn(data) =>
            /\ app'.lastNoiseLevel >= app.lastNoiseLevel
            /\ app'.lastNoiseLevel =
                 IF WindowSilent(data)
                 THEN Max(app.lastNoiseLevel, WindowPower(data))
                 ELSE app.lastNoiseLevel
            /\ app'.lastMetrics.isSilent = WindowSilent(data)
            /\ app'.lastMetrics.noiseLevel = Shown(app'.lastNoiseLevel)
            /\ ShownLeq(Shown(app.lastNoiseLevel),
                        app'.lastMetrics.noiseLevel) ]_vars

\* a loud window was measured after a silent one, and the estimate of the
\* silent one is still emitted
C17_Witness ==
    /\ app.frames # {}
    /\ "isSilent" \in DOMAIN app.lastMetrics
    /\ ~app.lastMetrics.isSilent
    /\ app.lastNoiseLevel > 0
    /\ app.lastMetrics.noiseLevel = [power |-> app.lastNoiseLevel]

\* ---- C18
\* a tick of the loop is due and app.js receives its snapshot
TickDue ==
    /\ page = "app"
    /\ app.frames # {}
    /\ app.analyserNode # 0
    /\ app.subscriber = "app"

\* the snapshot app.js receives from a tick on the window data
Snapshot(data) == processAudioLoop(app, data, FALSE).lastMetrics

\* C18: for every window, the clipping flag of the snapshot is true if and
\* only if some byte b of the window has b >= 254 or b <= 1.
C18_ClippingIffExtremeByte ==
    TickDue =>
      \A data \in Windows :
        Snapshot(data).clipping <=>
          \E k \in DOMAIN data :
            /\ data[k].count > 0
            /\ data[k].byte >= 254 \/ data[k].byte <= 1

\* a snapshot with the flag set was emitted for a window whose extreme byte
\* is 254 or 1: its peak is 126/128 or 127/128 of full scale
C18_Witness ==
    /\ "clipping" \in DOMAIN app.lastMetrics
    /\ app.lastMetrics.clipping
    /\ app.lastMetrics.peakVolume
         \in {[power |-> AnalyzerFftSize * 126 * 126],
              [power |-> AnalyzerFftSize * 127 * 127]}

\* ---- C19
\* C19: for the window whose bytes are all 128 the snapshot has peakVolume
\* -100, rmsVolume -100, clipping false and dcOffset 0.
C19_MidValueWindowAtFloor ==
    TickDue =>
      LET metrics == Snapshot(Uniform(128))
      IN  /\ metrics.peakVolume = [dB |-> -100]
          /\ metrics.rmsVolume = [dB |-> -100]
          /\ ~metrics.clipping
          /\ metrics.dcOffset.sum = 0

\* the snapshot of a window of 128s was emitted
C19_Witness ==
    /\ "peakVolume" \in DOMAIN app.lastMetrics
    /\ app.lastMetrics.peakVolume = [dB |-> -100]
    /\ app.lastMetrics.rmsVolume = [dB |-> -100]
    /\ ~app.lastMetrics.clipping

\* ---- C20
\* C20 (as amended): for the window whose bytes are all 0 the snapshot has
\* peakVolume and rmsVolume 0 dBFS (full scale), clipping true and dcOffset
\* -1; and no snapshot of any window carries -Infinity: each level is -100
\* or the level of a positive power.
C20_AllZeroBytesFullScale ==
    TickDue =>
      /\ LET metrics == Snapshot(Uniform(0))
         IN  /\ metrics.peakVolume = [power |-> FullScale]
             /\ metrics.rmsVolume = [power |-> FullScale]
             /\ metrics.clipping
             /\ metrics.dcOffset.sum = 0 - metrics.dcOffset.over
      /\ \A data \in Windows :
           \A level \in {Snapshot(data).peakVolume, Snapshot(data).rmsVolume,
                         Snapshot(data).noiseLevel} :
             level = [dB |-> -100] \/ level.power > 0

\* the snapshot of a window of 0s was emitted
C20_Witness ==
    /\ "rmsVolume" \in DOMAIN app.lastMetrics
    /\ app.lastMetrics.rmsVolume = [power |-> FullScale]
    /\ app.lastMetrics.clipping

\* C20 as stated: the window whose bytes are all 0 gives -100, -100, no
\* clipping and no offset
C20_AllZeroBytesAtFloor ==
    TickDue =>
      LET metrics == Snapshot(Uniform(0))
      IN  /\ metrics.peakVolume = [dB |-> -100]
          /\ metrics.rmsVolume = [dB |-> -100]
          /\ ~metrics.clipping
          /\ metrics.dcOffset.sum = 0

\* ---- C21
\* the greatest distance of a byte of the window from the mid value
WindowPeak(data) ==
    LET RECURSIVE Greatest(_)
        Greatest(runs) ==
          IF runs = <<>> THEN 0
          ELSE LET rest == Greatest(Tail(runs))
                   here == IF Head(runs).byte >= 128
                           THEN Head(runs).byte - 128
                           ELSE 128 - Head(runs).byte
               IN  IF Head(runs).count > 0 /\ here > rest THEN here ELSE rest
    IN  Greatest(data)

\* C21: for every window and every estimate the running loop can hold, the
\* peakVolume, rmsVolume and noiseLevel of the snapshot are finite (-100, or
\* the level of a positive power); peakVolume is -100 exactly when the peak
\* amplitude of the window is 0, rmsVolume exactly when its power is 0,
\* noiseLevel exactly when the estimate after the tick is still -Infinity;
\* and ui.js shows "---" for exactly the values that are -100.
C21_EmittedLevelsFinite ==
    TickDue =>
      \A data \in Windows :
        LET tick == processAudioLoop(app, data, FALSE)
            metrics == tick.lastMetrics
        IN  /\ \A level \in {metrics.peakVolume, metrics.rmsVolume,
                             metrics.noiseLevel} :
                 /\ level = [dB |-> -100]
                      \/ ("power" \in DOMAIN level /\ level.power > 0)
                 /\ formatDBFS(level) = "---" <=> level = [dB |-> -100]
            /\ metrics.peakVolume = [dB |-> -100] <=> WindowPeak(data) = 0
            /\ metrics.rmsVolume = [dB |-> -100] <=> WindowPower(data) = 0
            /\ metrics.noiseLevel = [dB |-> -100] <=> tick.lastNoiseLevel = 0

\* a snapshot was emitted whose peak and rms are numbers while the estimate
\* is still -Infinity and shown as -100
C21_Witness ==
    /\ "noiseLevel" \in DOMAIN app.lastMetrics
    /\ app.frames # {}
    /\ app.lastNoiseLevel = 0
    /\ app.lastMetrics.noiseLevel = [dB |-> -100]
    /\ "power" \in DOMAIN app.lastMetrics.peakVolume
    /\ "power" \in DOMAIN app.lastMetrics.rmsVolume

\* ---- C22
\* the number of samples of a window
WindowLength(data) ==
    LET RECURSIVE Count(_)
        Count(runs) ==
          IF runs = <<>> THEN 0 ELSE Head(runs).count + Count(Tail(runs))
    IN  Count(data)

\* C22: every time-domain window has 2048 samples and every
\* frequency-domain window 1024: the windows of analyzer.js's loop, and the
\* buffers audio.js holds while it monitors.
C22_WindowLengths ==
    /\ \A data \in Windows : WindowLength(data) = 2048
    /\ frequencyBinCount(AnalyzerFftSize) = 1024
    /\ main.isMonitoring =>
         /\ main.timeDomainData = 2048
         /\ main.frequencyData = 1024

\* ---- C23
\* the kind of a failure of getUserMedia
ErrorKind(name) ==
    IF name \in {"NotAllowedError", "PermissionDeniedError"}
    THEN "PermissionDenied"
    ELSE IF name \in {"NotFoundError", "DevicesNotFoundError"}
    THEN "DeviceNotFound"
    ELSE IF name \in {"NotReadableError", "TrackStartError"}
    THEN "DeviceBusy"
    ELSE "ConstraintUnsatisfiable"

OpenErrors ==
    {[name |-> name, message |-> text] :
       name \in GetUserMediaErrors, text \in ErrorTexts}

\* C23: what a failed open reports is determined by the kind of the failure
\* alone, one value per kind: two failures are reported with the same value
\* exactly when they are of the same kind, whatever their text.  This holds
\* of the Error initMic() of analyzer.js throws, of the status app.js shows
\* for it, and of the status audio.js shows.
C23_OneValuePerErrorKind ==
    \A e1, e2 \in OpenErrors :
      LET same == ErrorKind(e1.name) = ErrorKind(e2.name)
      IN  /\ app.startPending =>
               /\ same <=> initMicErrorMessage(e1) = initMicErrorMessage(e2)
               /\ same <=>
                    startFailed(app, initMicErrorMessage(e1)).lastStatus
                      = startFailed(app, initMicErrorMessage(e2)).lastStatus
          /\ main.startsPending > 0 =>
               (same <=>
                  startMonitoringErrorKey(e1) = startMonitoringErrorKey(e2))

\* C24, analyzer.js: a tick that finds no analyser publishes no snapshot,
\* leaves the noise-floor estimate alone and leaves no tick of its own
\* scheduled
C24_AppAbsentAnalyserStops ==
    (page = "app" /\ app.analyserNode = 0) =>
      \A f \in app.frames, data \in QuietWindows :
        LET w0 == [app EXCEPT !.frames = @ \ {f}]
            w  == processAudioLoop(w0, data, FALSE)
        IN  /\ w.lastMetrics = w0.lastMetrics
            /\ w.lastNoiseLevel = w0.lastNoiseLevel
            /\ w.frames \subseteq w0.frames
            /\ w.animationFrameId = 0

\* C24, main.js: a tick that finds no analyser draws nothing and schedules no
\* further tick
C24_MainAbsentAnalyserStops ==
    (page = "main" /\ main.analyserNode = 0) =>
      \A f \in main.frames :
        LET w0 == [main EXCEPT !.frames = @ \ {f}]
            w  == visualizationLoop(w0)
        IN  /\ ~draws(w0)
            /\ w.frames = w0.frames
            /\ w.mainAnimationFrameId = 0

\* C24: in both programs, if the analyser is absent when a scheduled tick
\* runs, that tick reads no sample data, publishes nothing and schedules no
\* further tick: the loop is stopped.
C24_AbsentAnalyserStopsLoop ==
    C24_AppAbsentAnalyserStops /\ C24_MainAbsentAnalyserStops

\* C25, analyzer.js: while the analysis loop runs, at most one of its
\* animation frames is pending
C25_AppOnePendingTick ==
    (page = "app" /\ app.animationFrameId # 0) => Cardinality(app.frames) <= 1

\* C25, main.js: while monitoring, at most one frame of the visualization
\* loop is pending
C25_MainOnePendingTick ==
    (page = "main" /\ main.isMonitoring) => Cardinality(main.frames) <= 1

\* C25: while the loop is running, in every reachable state at most one
\* animation-frame callback of the loop is pending, whatever the sequence of
\* starts, stops and restarts.
C25_AtMostOnePendingTick ==
    C25_AppOnePendingTick /\ C25_MainOnePendingTick

\* C26: under the fairness of SpecAppFair (stop events are delivered, armed
\* timers fire), every recording app.js started eventually has its outcome
\* reported, by handleRecordingStop or handleRecordingError, so that app.js
\* leaves 'recording'; no manual stop is needed for that.
C26_RecordingTerminates ==
    (page = "app" /\ app.appState = "recording")
      ~> (app.appState # "recording")

\* C27: a recording of audio.js that was reported Failed (the status line
\* shows recStatusError and nothing was started since) is never reported
\* Finished afterwards, nor is an artifact of it handed to the player:
\* whatever stop event is still to be delivered leaves the status line off
\* recStatusFinished and the player empty.
C27_FailedNeverFinished ==
    (page = "main" /\ main.recStatus = "recStatusError") =>
      \A r \in DOMAIN main.recorders, size \in {0, 1} :
        (/\ main.recorders[r].stopQueue # <<>>
         /\ size > 0 => Len(main.audioChunks) < MaxChunks) =>
          LET rec == Head(main.recorders[r].stopQueue)
              w1  == [main EXCEPT !.recorders[r].stopQueue = Tail(@)]
              w   == audioOnstop(audioOndataavailable(w1, rec, size))
          IN  /\ w.recStatus # "recStatusFinished"
              /\ w.playbackSrc = 0

\* C28: in app.js, in every reachable state, appState = 'stopped' implies
\* that no tick of the analysis loop is scheduled: a recording that finishes
\* or fails while the loop is running brings appState back to 'testing'.
C28_StoppedMeansNoTick ==
    (page = "app" /\ app.appState = "stopped") =>
      (app.frames = {} /\ app.animationFrameId = 0)

\* ---- C29
\* an emitted value is strictly below -50 dBFS
BelowSilence(value) ==
    IF "dB" \in DOMAIN value THEN value.dB < silenceThreshold
    ELSE belowDb(value.power, silenceThreshold)

\* C29: the noiseLevel of every snapshot, the one a due tick would emit on
\* any window and the one app.js last received, is strictly below -50 dBFS:
\* it is the floor -100 or the rms level of a window classified silent; and
\* generateActionableTips never returns tips.noiseHigh for it.
C29_NoiseBelowSilence ==
    /\ TickDue =>
         \A data \in Windows :
           LET tick == measure(data, app.lastNoiseLevel)
               m    == Snapshot(data)
           IN  /\ m = tick.metrics
               /\ BelowSilence(m.noiseLevel)
               /\ \/ m.noiseLevel = [dB |-> FloorDb]
                  \/ m.noiseLevel = [power |-> app.lastNoiseLevel]
                  \/ m.isSilent /\ m.noiseLevel = m.rmsVolume
               /\ "tips.noiseHigh" \notin generateActionableTips(m)
    /\ (page = "app" /\ "noiseLevel" \in DOMAIN app.lastMetrics) =>
         /\ BelowSilence(app.lastMetrics.noiseLevel)
         /\ "tips.noiseHigh" \notin generateActionableTips(app.lastMetrics)

\* app.js has received a snapshot of a loud window whose noise estimate is
\* the rms level of an earlier silent window that was not digital silence
C29_Witness ==
    /\ page = "app"
    /\ "noiseLevel" \in DOMAIN app.lastMetrics
    /\ ~app.lastMetrics.isSilent
    /\ "power" \in DOMAIN app.lastMetrics.noiseLevel
    /\ generateActionableTips(app.lastMetrics) # {}

\* C30: in app.js, while the state is 'testing' after a successful Start,
\* the Record control is enabled exactly when the engine holds a recorder
\* (initMic initialised mediaRecorder), so that the user can reach
\* 'recording' whenever recording is supported.
C30_RecordEnabledIffRecorder ==
    (page = "app" /\ app.appState = "testing") =>
      (app.recordEnabled <=> app.mediaRecorder # 0)

=============================================================================
